---------------------------- MODULE Spec2Model ----------------------------
(***************************************************************************)
(* Item CRUD service: the repository functions of app/crud.py and the     *)
(* routes of app/main.py over one table `item` (SQLite, id INTEGER        *)
(* PRIMARY KEY).  Every request is one atomic step: the route, the        *)
(* repository call it makes, and the commit or rollback inside it.        *)
(* A storage failure is an input of the request: `fault` names the        *)
(* session call that raises SQLAlchemyError ("none": no call raises).     *)
(***************************************************************************)
EXTENDS Integers, Sequences, FiniteSets, TLC

\* ---------------------------------------------------------------- bounds
\* Largest id the table, a request path or a request body uses.
MaxId == 3

\* ------------------------------------------------------- program constants
HTTP_200_OK == 200
HTTP_201_CREATED == 201
HTTP_204_NO_CONTENT == 204
HTTP_400_BAD_REQUEST == 400
HTTP_404_NOT_FOUND == 404
HTTP_500_INTERNAL_SERVER_ERROR == 500

\* ------------------------------------------------------------- the entity
Ids == 1..MaxId
Names == {"Widget", "New"}

\* The columns of Item: app.models.Item (id primary key, name required).
ItemFields == {"id", "name"}
\* An attribute of an Item instance that is no column: hasattr is true,
\* setattr raises (the model class rejects assignment to a non-field).
NonFieldAttrs == {"metadata"}
\* A key that is no attribute of Item at all: hasattr is false.
UnknownKeys == {"color"}
PayloadKeys == ItemFields \cup NonFieldAttrs \cup UnknownKeys

\* PUT bodies (item_data: dict): a mapping of some of the keys to values.
FullPayloads ==
    [id : Ids, name : Names, metadata : {"x"}, color : {"red"}]

Payloads ==
    { [k \in K |-> f[k]] : f \in FullPayloads, K \in SUBSET PayloadKeys }

\* POST bodies (item: Item): a name, and optionally a client-chosen id.
NewItems ==
    [name : Names] \cup [id : Ids, name : Names]

\* Optional[Item]: None is the empty sequence, an item the one-element one.
None == << >>
Some(x) == << x >>

VARIABLES
    table,      \* the rows of the item table: a set of [id, name]
    last,       \* the request served last and its response
    insertion,  \* history: the ids of the rows, in the order of their INSERTs
    run         \* history: the successful creates since the table was empty

vars == << table, last, insertion, run >>

\* ------------------------------------------------------------ the storage
IdsOf(db) == { r.id : r \in db }

\* session.get(Item, item_id): the row with that primary key, or None.
Get(db, item_id) ==
    IF \E r \in db : r.id = item_id
    THEN Some(CHOOSE r \in db : r.id = item_id)
    ELSE None

\* The id SQLite gives a row inserted without one: INTEGER PRIMARY KEY is the
\* rowid, one more than the largest in the table, 1 in an empty table.
NextRowid(db) ==
    IF db = {} THEN 1
    ELSE (CHOOSE m \in IdsOf(db) : \A i \in IdsOf(db) : i <= m) + 1

\* select(Item) with no ORDER BY: SQLite scans the table in rowid (= id) order.
RECURSIVE ScanByRowid(_)
ScanByRowid(db) ==
    IF db = {} THEN << >>
    ELSE LET lo == CHOOSE r \in db : \A q \in db : r.id <= q.id
         IN  << lo >> \o ScanByRowid(db \ {lo})

\* What a repository function hands back: a value, or ItemCRUDError.
Return(db, value) ==
    [db |-> db, raised |-> "", value |-> value, msg |-> << >>, rollback |-> FALSE]

ItemCRUDError(db, msg, rollback) ==
    [db |-> db, raised |-> "ItemCRUDError", value |-> None, msg |-> msg,
     rollback |-> rollback]

\* ----------------------------------------------------- app/crud.py
\* The session call of each function that a storage failure can hit.
CreateFaults == {"none", "add", "commit", "refresh"}
ListFaults == {"none", "exec"}
GetFaults == {"none", "get"}
UpdateFaults == {"none", "get", "commit", "refresh"}
DeleteFaults == {"none", "get", "delete", "commit"}

\* Faulty variant: a table whose id column is no key.
NoPrimaryKey(db, id) == FALSE

\* Whether a row with primary key `id` stands in the way of writing one: id is
\* the primary key of Item, so the INSERT or UPDATE raises IntegrityError.
PrimaryKeyTaken(db, id) == id \in IdsOf(db)

\* The row an INSERT of `item` writes: its own id, or the next rowid.
RowOf(db, item) ==
    [id |-> IF "id" \in DOMAIN item THEN item.id ELSE NextRowid(db),
     name |-> item.name]

\* add, commit, refresh; every exception is rolled back and raised again as
\* ItemCRUDError.
create_item(db, item, fault) ==
    LET row == RowOf(db, item)
    IN  IF fault = "add"
        THEN ItemCRUDError(db, << "Error de base de datos al crear item", item.name >>, TRUE)
        ELSE IF fault = "commit"
        THEN ItemCRUDError(db, << "Error de base de datos al crear item", item.name >>, TRUE)
        ELSE IF PrimaryKeyTaken(db, row.id)
        THEN \* the INSERT violates the primary key: IntegrityError, rollback
             ItemCRUDError(db, << "Error de integridad al crear item", item.name >>, TRUE)
        ELSE IF fault = "refresh"
        THEN \* the commit is done; the rollback finds nothing to undo
             ItemCRUDError(db \cup {row},
                           << "Error de base de datos al crear item", item.name >>, TRUE)
        ELSE Return(db \cup {row}, Some(row))

\* Faulty variant: get_items without its except clauses: the storage failure escapes as it is.
get_items_Unwrapped(db, fault) ==
    IF fault = "exec"
    THEN [ItemCRUDError(db, << "database is locked" >>, FALSE)
             EXCEPT !.raised = "SQLAlchemyError"]
    ELSE Return(db, ScanByRowid(db))

get_items(db, fault) ==
    IF fault = "exec"
    THEN ItemCRUDError(db, << "Error de base de datos al consultar items" >>, FALSE)
    ELSE Return(db, ScanByRowid(db))

\* Faulty variant: get_item_by_id selecting without the primary key: the first row there is.
get_item_by_id_Unfiltered(db, item_id, fault) ==
    IF fault = "get"
    THEN ItemCRUDError(db, << "Error de base de datos al consultar item con ID",
                              ToString(item_id) >>, FALSE)
    ELSE Return(db, SubSeq(ScanByRowid(db), 1, 1))

get_item_by_id(db, item_id, fault) ==
    IF fault = "get"
    THEN ItemCRUDError(db, << "Error de base de datos al consultar item con ID",
                              ToString(item_id) >>, FALSE)
    ELSE Return(db, Get(db, item_id))

\* hasattr(item, field)
HasAttr(field) == field \in ItemFields \cup NonFieldAttrs

\* Faulty variant: the loop replaced by a whole-row replacement: a column the payload does not
\* name is reset.
Assigned_Replace(row, item_data) ==
    [id |-> IF "id" \in DOMAIN item_data THEN item_data.id ELSE row.id,
     name |-> IF "name" \in DOMAIN item_data THEN item_data.name ELSE ""]

\* The loop of setattr calls: the row with every payload key that is an
\* attribute assigned.  (A non-field attribute makes setattr raise: see
\* update_item.)
Assigned(row, item_data) ==
    [f \in ItemFields |->
        IF f \in DOMAIN item_data /\ HasAttr(f) THEN item_data[f] ELSE row[f]]

update_item(db, item_id, item_data, fault) ==
    IF fault = "get"
    THEN ItemCRUDError(db, << "Error de base de datos al actualizar item con ID",
                              ToString(item_id) >>, TRUE)
    ELSE IF Get(db, item_id) = None
    THEN Return(db, None)
    ELSE LET item == Get(db, item_id)[1]
             new == Assigned(item, item_data)
         IN  IF \E k \in DOMAIN item_data : HasAttr(k) /\ k \notin ItemFields
             THEN ItemCRUDError(db, << "Error inesperado al actualizar item con ID",
                                       ToString(item_id) >>, TRUE)
             ELSE IF fault = "commit"
             THEN ItemCRUDError(db, << "Error de base de datos al actualizar item con ID",
                                       ToString(item_id) >>, TRUE)
             ELSE IF new.id # item.id /\ PrimaryKeyTaken(db, new.id)
             THEN \* the UPDATE moves the row onto a taken primary key
                  ItemCRUDError(db, << "Error de integridad al actualizar item con ID",
                                       ToString(item_id) >>, TRUE)
             ELSE IF fault = "refresh"
             THEN ItemCRUDError((db \ {item}) \cup {new},
                                << "Error de base de datos al actualizar item con ID",
                                   ToString(item_id) >>, TRUE)
             ELSE Return((db \ {item}) \cup {new}, Some(new))

\* Faulty variant: delete_item treating a missing row as a failure.
delete_item_RaiseOnAbsent(db, item_id, fault) ==
    IF fault \in {"get", "delete", "commit"} \/ Get(db, item_id) = None
    THEN ItemCRUDError(db, << "Error de base de datos al eliminar item con ID",
                              ToString(item_id) >>, TRUE)
    ELSE Return(db \ {Get(db, item_id)[1]}, TRUE)

delete_item(db, item_id, fault) ==
    IF fault = "get"
    THEN ItemCRUDError(db, << "Error de base de datos al eliminar item con ID",
                              ToString(item_id) >>, TRUE)
    ELSE IF Get(db, item_id) = None
    THEN Return(db, FALSE)
    ELSE IF fault \in {"delete", "commit"}
    THEN ItemCRUDError(db, << "Error de base de datos al eliminar item con ID",
                              ToString(item_id) >>, TRUE)
    ELSE Return(db \ {Get(db, item_id)[1]}, TRUE)

\* ----------------------------------------------------- app/main.py
Response(db, status, body, detail) ==
    [db |-> db, status |-> status, body |-> body, detail |-> detail]

\* f"Item con ID {item_id} no encontrado"
NotFoundDetail(item_id) == << "Item con ID", ToString(item_id), "no encontrado" >>

\* The except clauses every route ends with: ItemCRUDError is answered 400
\* with its message, any other exception 500 with a fixed message.
ErrorResponse(r) ==
    IF r.raised = "ItemCRUDError"
    THEN Response(r.db, HTTP_400_BAD_REQUEST, << >>, r.msg)
    ELSE Response(r.db, HTTP_500_INTERNAL_SERVER_ERROR, << >>,
                  << "Error interno del servidor" >>)

\* Faulty variant: POST /items/ answering every failure 500.
create_AllErrors500(db, item, fault) ==
    LET r == create_item(db, item, fault)
    IN  IF r.raised = ""
        THEN Response(r.db, HTTP_201_CREATED, r.value, << >>)
        ELSE Response(r.db, HTTP_500_INTERNAL_SERVER_ERROR, << >>,
                      << "Error interno del servidor" >>)

\* POST /items/
create(db, item, fault) ==
    LET r == create_item(db, item, fault)
    IN  IF r.raised = ""
        THEN Response(r.db, HTTP_201_CREATED, r.value, << >>)
        ELSE ErrorResponse(r)

\* GET /items/
read_all(db, fault) ==
    LET r == get_items(db, fault)
    IN  IF r.raised = ""
        THEN Response(r.db, HTTP_200_OK, r.value, << >>)
        ELSE ErrorResponse(r)

\* GET /items/{item_id}
read_one(db, item_id, fault) ==
    LET r == get_item_by_id(db, item_id, fault)
    IN  IF r.raised = ""
        THEN IF r.value = None
             THEN Response(r.db, HTTP_404_NOT_FOUND, << >>, NotFoundDetail(item_id))
             ELSE Response(r.db, HTTP_200_OK, r.value, << >>)
        ELSE ErrorResponse(r)

\* PUT /items/{item_id}
update(db, item_id, item_data, fault) ==
    LET r == update_item(db, item_id, item_data, fault)
    IN  IF r.raised = ""
        THEN IF r.value = None
             THEN Response(r.db, HTTP_404_NOT_FOUND, << >>, NotFoundDetail(item_id))
             ELSE Response(r.db, HTTP_200_OK, r.value, << >>)
        ELSE ErrorResponse(r)

\* DELETE /items/{item_id}
delete(db, item_id, fault) ==
    LET r == delete_item(db, item_id, fault)
    IN  IF r.raised = ""
        THEN IF ~ r.value
             THEN Response(r.db, HTTP_404_NOT_FOUND, << >>, NotFoundDetail(item_id))
             ELSE Response(r.db, HTTP_204_NO_CONTENT, << >>, << >>)
        ELSE ErrorResponse(r)

\* ------------------------------------------------------------ the requests
\* What `last` keeps of a request and its response: the route, the path id
\* (0 when the route has none), the session call that failed, and the status
\* answered.
Served(op, item_id, fault, resp) ==
    [op |-> op, item_id |-> item_id, fault |-> fault, status |-> resp.status]

\* ------------------------------------------------------------- history
\* `insertion` after a request that turned `db` into `db2`: a deleted row
\* leaves the order, an inserted row joins it at the end, and a row whose
\* primary key an UPDATE changed keeps its place under its new id.
Inserted(order, op, db, db2) ==
    LET removed == IdsOf(db) \ IdsOf(db2)
        added == IdsOf(db2) \ IdsOf(db)
    IN  IF op = "update" /\ removed # {} /\ added # {}
        THEN [k \in DOMAIN order |->
                 IF order[k] \in removed THEN CHOOSE a \in added : TRUE
                 ELSE order[k]]
        ELSE SelectSeq(order, LAMBDA i : i \notin removed)
                 \o (IF added = {} THEN << >> ELSE << CHOOSE a \in added : TRUE >>)

\* `run` after a request: n counts the creates answered 201 since the table
\* was last empty, and clean says that no delete was answered 204 and no
\* storage failure happened among them.
Counted(r, served, db2) ==
    IF db2 = {} THEN [n |-> 0, clean |-> TRUE]
    ELSE IF ~ r.clean \/ served.fault # "none"
            \/ (served.op = "delete" /\ served.status = HTTP_204_NO_CONTENT)
    THEN [n |-> 0, clean |-> FALSE]
    ELSE [n |-> r.n + (IF served.op = "create" /\ served.status = HTTP_201_CREATED
                       THEN 1 ELSE 0),
          clean |-> TRUE]

Count == run' = Counted(run, last', table')
Order == insertion' = Inserted(insertion, last'.op, table, table')

\* on_startup: init_db creates the table if it is absent.
Init ==
    /\ table = {}
    /\ last = [op |-> "startup", item_id |-> 0, fault |-> "none", status |-> 0]
    /\ insertion = << >>
    /\ run = [n |-> 0, clean |-> TRUE]

Create(item, fault) ==
    /\ RowOf(table, item).id \in Ids
    /\ LET resp == create(table, item, fault)
       IN  /\ table' = resp.db
           /\ last' = Served("create", 0, fault, resp)
    /\ Count

ReadAll(fault) ==
    /\ LET resp == read_all(table, fault)
       IN  /\ table' = resp.db
           /\ last' = Served("read_all", 0, fault, resp)
    /\ Count

ReadOne(item_id, fault) ==
    /\ LET resp == read_one(table, item_id, fault)
       IN  /\ table' = resp.db
           /\ last' = Served("read_one", item_id, fault, resp)
    /\ Count

Update(item_id, item_data, fault) ==
    /\ LET resp == update(table, item_id, item_data, fault)
       IN  /\ table' = resp.db
           /\ last' = Served("update", item_id, fault, resp)
    /\ Count

Delete(item_id, fault) ==
    /\ LET resp == delete(table, item_id, fault)
       IN  /\ table' = resp.db
           /\ last' = Served("delete", item_id, fault, resp)
    /\ Count

\* The service, with the order of the INSERTs left out of the history.
Next ==
    \/ \E item \in NewItems, fault \in CreateFaults :
          Create(item, fault) /\ UNCHANGED insertion
    \/ \E fault \in ListFaults :
          ReadAll(fault) /\ UNCHANGED insertion
    \/ \E item_id \in Ids, fault \in GetFaults :
          ReadOne(item_id, fault) /\ UNCHANGED insertion
    \/ \E item_id \in Ids, item_data \in Payloads, fault \in UpdateFaults :
          Update(item_id, item_data, fault) /\ UNCHANGED insertion
    \/ \E item_id \in Ids, fault \in DeleteFaults :
          Delete(item_id, fault) /\ UNCHANGED insertion

Spec == Init /\ [][Next]_vars

\* The same service, with the order of the INSERTs recorded.
NextOrdered ==
    \/ \E item \in NewItems, fault \in CreateFaults :
          Create(item, fault) /\ Order
    \/ \E fault \in ListFaults :
          ReadAll(fault) /\ Order
    \/ \E item_id \in Ids, fault \in GetFaults :
          ReadOne(item_id, fault) /\ Order
    \/ \E item_id \in Ids, item_data \in Payloads, fault \in UpdateFaults :
          Update(item_id, item_data, fault) /\ Order
    \/ \E item_id \in Ids, fault \in DeleteFaults :
          Delete(item_id, fault) /\ Order

SpecOrdered == Init /\ [][NextOrdered]_vars

\* ----------------------------------------------------------------- claims
\* A claim about the answer to a request is stated for every request that
\* can be served next in a reachable state: the routes are the operators the
\* actions apply to `table`, so the formula covers every step the service
\* can take from that state.  A claim about what a request leaves behind
\* over several requests is stated on the steps themselves.  Unless a claim
\* is about failures, it is stated for requests that meet no storage failure
\* (fault "none").

\* ------------------------------------------------------------------ C1
\* C1: a POST /items/ that succeeds answers 201 with one item whose id is set
\* and whose name is the submitted name, and a GET /items/{id} for that id
\* served next (no storage failure) answers 200 with an equal item.
C1_CreateThenGet ==
    \A item \in NewItems, fault \in CreateFaults :
        LET c == create(table, item, fault)
        IN  c.status = HTTP_201_CREATED =>
              /\ Len(c.body) = 1
              /\ DOMAIN c.body[1] = ItemFields
              /\ c.body[1].id >= 1
              /\ c.body[1].name = item.name
              /\ LET g == read_one(c.db, c.body[1].id, "none")
                 IN  g.status = HTTP_200_OK /\ g.body = c.body

\* A create was answered 201 in a table that then holds two rows.
C1_Witness ==
    /\ last.op = "create"
    /\ last.status = HTTP_201_CREATED
    /\ Cardinality(table) = 2

\* ------------------------------------------------------------------ C3
\* C3: for an id that is not in the table, get_item_by_id and update_item
\* return None and delete_item returns False, none raising ItemCRUDError, and
\* GET, PUT and DELETE /items/{id} answer 404 with a message naming the id,
\* whatever the PUT body is.
C3_NotFound ==
    \A item_id \in (1 .. MaxId + 1) \ IdsOf(table) :
        /\ LET r == get_item_by_id(table, item_id, "none")
           IN  r.raised = "" /\ r.value = None /\ r.db = table
        /\ \A fault \in DeleteFaults \ {"get"} :
              LET r == delete_item(table, item_id, fault)
              IN  r.raised = "" /\ r.value = FALSE /\ r.db = table
        /\ read_one(table, item_id, "none")
              = Response(table, HTTP_404_NOT_FOUND, << >>, NotFoundDetail(item_id))
        /\ delete(table, item_id, "none")
              = Response(table, HTTP_404_NOT_FOUND, << >>, NotFoundDetail(item_id))
        /\ ToString(item_id) = NotFoundDetail(item_id)[2]
        /\ \A item_data \in Payloads, fault \in UpdateFaults \ {"get"} :
              /\ LET r == update_item(table, item_id, item_data, fault)
                 IN  r.raised = "" /\ r.value = None /\ r.db = table
              /\ update(table, item_id, item_data, fault)
                    = Response(table, HTTP_404_NOT_FOUND, << >>, NotFoundDetail(item_id))

\* A PUT on an absent id of a non-empty table was answered 404.
C3_Witness ==
    /\ last.op = "update"
    /\ last.status = HTTP_404_NOT_FOUND
    /\ table # {}
    /\ last.item_id \notin IdsOf(table)

\* ------------------------------------------------------------------ C4
\* C4: a PUT /items/{id} answered 200 writes, into the row of that id, the
\* payload's value for each column the payload names and nothing else: the
\* row's other columns keep their values, the row gets no column for a
\* payload key that is no field of Item, and the other rows are unchanged.
C4_UpdateFrame ==
    \A item_id \in IdsOf(table), item_data \in Payloads, fault \in UpdateFaults :
        LET old == Get(table, item_id)[1]
            u == update(table, item_id, item_data, fault)
        IN  u.status = HTTP_200_OK =>
              /\ Len(u.body) = 1
              /\ u.body[1] \in u.db
              /\ DOMAIN u.body[1] = ItemFields
              /\ \A f \in ItemFields :
                    u.body[1][f] = IF f \in DOMAIN item_data THEN item_data[f]
                                   ELSE old[f]
              /\ u.db \ {u.body[1]} = table \ {old}

\* A PUT was answered 200 and gave the row the name "New", while the table
\* held another row whose name is still "Widget".
C4_Witness ==
    /\ last.op = "update"
    /\ last.status = HTTP_200_OK
    /\ \E r, q \in table :
          /\ r.id = last.item_id /\ r.name = "New"
          /\ q.id # r.id /\ q.name = "Widget"

\* ------------------------------------------------------------------ C5
\* C5: a POST /items/ whose id is already the primary key of a row is
\* answered 400 and leaves the table as it was: GET /items/ returns as many
\* items after it as before.
C5_FailedCreate ==
    \A item \in NewItems, fault \in CreateFaults :
        ("id" \in DOMAIN item /\ item.id \in IdsOf(table)) =>
            LET c == create(table, item, fault)
            IN  /\ c.status = HTTP_400_BAD_REQUEST
                /\ c.db = table
                /\ Len(read_all(c.db, "none").body) = Len(read_all(table, "none").body)

\* A POST hit no storage failure and was answered 400: its id was taken.
C5_Witness ==
    /\ last.op = "create"
    /\ last.status = HTTP_400_BAD_REQUEST
    /\ last.fault = "none"
    /\ table # {}

\* ------------------------------------------------------------------ C7
\* C7: no two rows of the table have the same id; and when the table was
\* empty and n creates were since answered 201, with no delete answered 204
\* and no storage failure among the requests, GET /items/ returns exactly n
\* items whose ids are pairwise distinct.
C7_UniqueIds ==
    /\ \A r, q \in table : r.id = q.id => r = q
    /\ run.clean =>
          LET l == read_all(table, "none")
          IN  /\ l.status = HTTP_200_OK
              /\ Len(l.body) = run.n
              /\ \A i, j \in 1 .. Len(l.body) :
                    i # j => l.body[i].id # l.body[j].id

\* Two creates were answered 201 on an emptied table and the list was read.
C7_Witness ==
    /\ run.clean
    /\ run.n >= 2
    /\ last.op = "read_all"
    /\ last.status = HTTP_200_OK

\* ------------------------------------------------------------------ C8
\* C8 as stated: GET /items/ answers 200 or 500, never 400.
C8_ListNever400 ==
    last.op = "read_all" => last.status \in {HTTP_200_OK, HTTP_500_INTERNAL_SERVER_ERROR}

\* C8 amended: GET /items/ answers 200 with all the items when the query
\* works, and 400 with no items when it fails; it never answers 500 and
\* never changes the table.
C8_ListErrorIs400 ==
    /\ last.op = "read_all" => last.status \in {HTTP_200_OK, HTTP_400_BAD_REQUEST}
    /\ \A fault \in ListFaults :
          LET l == read_all(table, fault)
          IN  /\ l.db = table
              /\ fault = "none" =>
                    /\ l.status = HTTP_200_OK
                    /\ { l.body[k] : k \in DOMAIN l.body } = table
              /\ fault # "none" =>
                    /\ l.status = HTTP_400_BAD_REQUEST
                    /\ l.body = << >>

\* A GET /items/ failed on a non-empty table and was answered 400.
C8_Witness ==
    /\ last.op = "read_all"
    /\ last.fault = "exec"
    /\ last.status = HTTP_400_BAD_REQUEST
    /\ table # {}

\* ------------------------------------------------------------------ C2
\* C2: a DELETE /items/{id} of a present id (no storage failure) answers 204
\* and removes the row; and once it has, as long as the next request is not
\* a create, a GET and a DELETE of that id answer 404.
C2_DeletedStaysGone ==
    [][ /\ (last'.op = "delete" /\ last'.fault = "none"
                /\ last'.item_id \in IdsOf(table))
            => /\ last'.status = HTTP_204_NO_CONTENT
               /\ last'.item_id \notin IdsOf(table')
        /\ (last.op = "delete" /\ last.status = HTTP_204_NO_CONTENT
                /\ last'.op # "create")
            => /\ read_one(table', last.item_id, "none").status = HTTP_404_NOT_FOUND
               /\ delete(table', last.item_id, "none").status = HTTP_404_NOT_FOUND
      ]_vars

\* ------------------------------------------------------------------ C6
\* C6: only a create gives a row its id: a list, get, update or delete
\* request leaves every row it keeps under the id the row had, so no id
\* appears in the table by such a request.
C6_IdAssignedOnlyByCreate ==
    [][ last'.op # "create" => IdsOf(table') \subseteq IdsOf(table) ]_vars

\* ------------------------------------------------------------------ C9
\* C9: get_items returns all the rows of the table, in the order in which
\* they were inserted.
C9_ListInInsertionOrder ==
    LET l == get_items(table, "none")
    IN  /\ l.raised = ""
        /\ [k \in DOMAIN l.value |-> l.value[k].id] = insertion

\* ------------------------------------------------------------------ C10
\* C10: whenever create_item, update_item or delete_item raises ItemCRUDError
\* the session was rolled back first, and the request that is answered with
\* the error leaves the table exactly as it found it.
C10_ErrorLeavesTable ==
    [][ /\ \A item \in NewItems, fault \in CreateFaults :
              LET r == create_item(table, item, fault)
              IN  r.raised = "ItemCRUDError" => r.rollback
        /\ \A item_id \in Ids, item_data \in Payloads, fault \in UpdateFaults :
              LET r == update_item(table, item_id, item_data, fault)
              IN  r.raised = "ItemCRUDError" => r.rollback
        /\ \A item_id \in Ids, fault \in DeleteFaults :
              LET r == delete_item(table, item_id, fault)
              IN  r.raised = "ItemCRUDError" => r.rollback
        /\ (last'.op \in {"create", "update", "delete"}
                /\ last'.status = HTTP_400_BAD_REQUEST)
            => table' = table
      ]_vars
=============================================================================
